---------------------------- MODULE Spec2Model ----------------------------
(***************************************************************************)
(* A model of FuzzySearch (src/src/fuzzyset.ts): the n-gram index, add,    *)
(* get with its gram-size fallback, the cosine score, the Levenshtein      *)
(* refinement and the threshold filter.                                    *)
(*                                                                         *)
(* Encodings.                                                              *)
(*  - A JavaScript string is a sequence of one-character strings.          *)
(*  - A vector norm Math.sqrt(n) is stored as its radicand n.              *)
(*  - A score is a record [sq, num, den]: num/den when sq is FALSE (the    *)
(*    Levenshtein score; den = 0 is NaN, the 0/0 of two empty strings) and *)
(*    sqrt(num/den) when sq is TRUE (the cosine score, which is positive   *)
(*    for every candidate).  Comparisons are exact; the program rounds to  *)
(*    IEEE doubles.                                                        *)
(*  - A threshold is a rational [n, d], d > 0.                             *)
(*  - A return value of get is [kind, list]: kind "null", "default" (the   *)
(*    caller's defaultValue) or "list".                                    *)
(* The configurations are those with 1 <= gramSizeLower <= gramSizeUpper.  *)
(***************************************************************************)
EXTENDS Integers, Sequences, FiniteSets

VARIABLES gramSizeLower, gramSizeUpper, useLevenshtein,
          exactSet, matchDict, items,
          call, result, lev

vars == <<gramSizeLower, gramSizeUpper, useLevenshtein,
          exactSet, matchDict, items, call, result, lev>>

index == [exactSet |-> exactSet, matchDict |-> matchDict, items |-> items]

---------------------------------------------------------------------------
(* Bounds of the model and constants of the program. *)

MaxEntries == 2

MaxGramSize == 3

MaxLevLen == 3

DefaultGramSizeLower == 2

DefaultGramSizeUpper == 3

TopCandidates == 50

DefaultMinMatchScore == [n |-> 33, d |-> 100]

---------------------------------------------------------------------------
(* Characters and strings. *)

UpperCase == <<"A","B","C","D","E","F","G","H","I","J","K","L","M",
               "N","O","P","Q","R","S","T","U","V","W","X","Y","Z">>

LowerCase == <<"a","b","c","d","e","f","g","h","i","j","k","l","m",
               "n","o","p","q","r","s","t","u","v","w","x","y","z">>

Digits == {"0","1","2","3","4","5","6","7","8","9"}

Range(s) == {s[i] : i \in DOMAIN s}

\* String.prototype.toLowerCase, on one character and on a string.
toLowerCaseChar(c) ==
    IF \E i \in DOMAIN UpperCase : UpperCase[i] = c
    THEN LowerCase[CHOOSE i \in DOMAIN UpperCase : UpperCase[i] = c]
    ELSE c

toLowerCase(str) == [i \in DOMAIN str |-> toLowerCaseChar(str[i])]

\* The complement of the character class of _nonWordRe, on the characters of
\* the model (the Latin-1 and Arabic ranges have no character in it).
WordChar(c) ==
    c \in Range(LowerCase) \cup Range(UpperCase) \cup Digits \cup {",", " "}

\* str.replace(_nonWordRe, ''): the expression is anchored at both ends, ^[^..]+$,
\* so it matches the whole string or nothing.
StripNonWord(str) ==
    IF Len(str) > 0 /\ \A i \in DOMAIN str : ~WordChar(str[i]) THEN <<>> ELSE str

\* A _normalizeStr that forgets to lower-case.
NormalizeNothing(str) == str

_normalizeStr(str) == toLowerCase(str)

\* The property names a lower-cased key can meet on Object.prototype: the `in`
\* operator looks a key up on the prototype chain of the object literal too.
ObjectPrototypeKeys ==
    { <<"c","o","n","s","t","r","u","c","t","o","r">>,
      <<"_","_","p","r","o","t","o","_","_">> }

\* key in obj, for a plain object obj.
KeyIn(key, obj) == key \in DOMAIN obj \/ key \in ObjectPrototypeKeys

---------------------------------------------------------------------------
(* Grams. *)

RECURSIVE Dashes(_)
Dashes(n) == IF n <= 0 THEN <<>> ELSE <<"-">> \o Dashes(n - 1)

_iterateGrams(value, gramSizeArg) ==
    LET gramSize   == IF gramSizeArg = 0 THEN 2 ELSE gramSizeArg
        simplified == <<"-">> \o StripNonWord(toLowerCase(value)) \o <<"-">>
        lenDiff    == gramSize - Len(simplified)
        padded     == simplified \o Dashes(lenDiff)
    IN  [i \in 1..(Len(padded) - gramSize + 1) |-> SubSeq(padded, i, i + gramSize - 1)]

\* A _gramCounter that marks a gram as present instead of counting it.
GramCounterPresence(value, gramSize) ==
    LET grams == _iterateGrams(value, gramSize)
    IN  [g \in Range(grams) |-> 1]

_gramCounter(value, gramSize) ==
    LET grams == _iterateGrams(value, gramSize)
    IN  [g \in Range(grams) |-> Cardinality({i \in DOMAIN grams : grams[i] = g})]

RECURSIVE SumOver(_, _)
SumOver(f, S) ==
    IF S = {} THEN 0
    ELSE LET x == CHOOSE y \in S : TRUE IN f[x] + SumOver(f, S \ {x})

\* sumOfSquareGramCounts of a gram-count object.
SumOfSquares(gramCounts) ==
    SumOver([g \in DOMAIN gramCounts |-> gramCounts[g] * gramCounts[g]], DOMAIN gramCounts)

---------------------------------------------------------------------------
(* Insertion. *)

\* The postings of one _add: push onto the gram's list, or start one.
Post(dict, gramCounts, idx) ==
    [g \in DOMAIN dict \cup DOMAIN gramCounts |->
        IF g \in DOMAIN gramCounts
        THEN (IF g \in DOMAIN dict THEN dict[g] ELSE <<>>) \o <<<<idx, gramCounts[g]>>>>
        ELSE dict[g]]

_add(ix, value, gramSize) ==
    LET normalizedValue == _normalizeStr(value)
        its        == IF gramSize \in DOMAIN ix.items THEN ix.items[gramSize] ELSE <<>>
        idx        == Len(its)
        gramCounts == _gramCounter(normalizedValue, gramSize)
        record     == [norm |-> SumOfSquares(gramCounts), str |-> normalizedValue]
    IN  [exactSet  |-> [k \in DOMAIN ix.exactSet \cup {normalizedValue} |->
                          IF k = normalizedValue THEN value ELSE ix.exactSet[k]],
         matchDict |-> Post(ix.matchDict, gramCounts, idx),
         items     |-> [g \in DOMAIN ix.items \cup {gramSize} |->
                          IF g = gramSize THEN Append(its, record) ELSE ix.items[g]]]

RECURSIVE AddFrom(_, _, _, _)
RECURSIVE AddFromShort(_, _, _, _)
\* An insertion loop that stops one gram size early (i < gramSizeUpper).
AddFromShort(ix, value, i, upper) ==
    IF i >= upper THEN ix ELSE AddFromShort(_add(ix, value, i), value, i + 1, upper)

AddFrom(ix, value, i, upper) ==
    IF i > upper THEN ix ELSE AddFrom(_add(ix, value, i), value, i + 1, upper)

\* An add without the existence check.
AddUnchecked(ix, value, lower, upper) == AddFrom(ix, value, lower, upper)

add(ix, value, lower, upper) ==
    IF KeyIn(_normalizeStr(value), ix.exactSet) THEN ix
    ELSE AddFrom(ix, value, lower, upper)

length(ix) == Cardinality(DOMAIN ix.exactSet)

isEmpty(ix) == DOMAIN ix.exactSet = {}

values(ix) == {ix.exactSet[k] : k \in DOMAIN ix.exactSet}

---------------------------------------------------------------------------
(* Edit distance. *)

Min3(a, b, c) == IF a <= b /\ a <= c THEN a ELSE IF b <= c THEN b ELSE c

RECURSIVE LevInnerNoDiagonal(_, _, _, _, _)
\* An inner loop whose minimum leaves out prev, the cost of a substitution.
LevInnerNoDiagonal(str1, str2, i, j, st) ==
    IF j \notin DOMAIN st.current THEN st
    ELSE LET value == IF str1[j] = str2[i] THEN st.prev
                      ELSE Min3(st.current[j], st.current[j - 1], st.current[j]) + 1
         IN  LevInnerNoDiagonal(str1, str2, i, j + 1,
                                [prev |-> st.current[j],
                                 current |-> [st.current EXCEPT ![j] = value]])

\* The inner loop over j: st.current is the one row, of str1.length + 1 cells
\* 0..str1.length, and st.prev the overwritten cell.
RECURSIVE LevInner(_, _, _, _, _)
LevInner(str1, str2, i, j, st) ==
    IF j \notin DOMAIN st.current THEN st
    ELSE LET value == IF str1[j] = str2[i] THEN st.prev
                      ELSE Min3(st.current[j], st.current[j - 1], st.prev) + 1
         IN  LevInner(str1, str2, i, j + 1,
                      [prev |-> st.current[j],
                       current |-> [st.current EXCEPT ![j] = value]])

\* TRUE of every value.  TLC hands an operator its arguments unevaluated; a
\* loop asks this of its state so that it is computed before the next round.
Computed(v) == v = v

RECURSIVE LevOuter(_, _, _, _)
LevOuter(str1, str2, i, current) ==
    IF i > Len(str2) THEN current
    ELSE LET st == LevInner(str1, str2, i, 1,
                            [prev |-> current[0],
                             current |-> [current EXCEPT ![0] = i]])
         IN  IF Computed(st) THEN LevOuter(str1, str2, i + 1, st.current) ELSE current

levenshtein(str1, str2) ==
    LevOuter(str1, str2, 1, [j \in 0..Len(str1) |-> j])[Len(str1)]

\* A _distance that divides by the shorter length.
DistanceOverShorter(str1, str2) ==
    LET distance == levenshtein(str1, str2)
    IN  IF Len(str1) > Len(str2)
        THEN [sq |-> FALSE, num |-> Len(str2) - distance, den |-> Len(str2)]
        ELSE [sq |-> FALSE, num |-> Len(str1) - distance, den |-> Len(str1)]

\* 1 - distance / length as the fraction (length - distance) / length.
_distance(str1, str2) ==
    LET distance == levenshtein(str1, str2)
    IN  IF Len(str1) > Len(str2)
        THEN [sq |-> FALSE, num |-> Len(str1) - distance, den |-> Len(str1)]
        ELSE [sq |-> FALSE, num |-> Len(str2) - distance, den |-> Len(str2)]

---------------------------------------------------------------------------
(* Scores. *)

IsNaN(s) == s.den = 0

\* b - a > 0 in the sort's comparator; a NaN difference orders nothing.
Greater(b, a) ==
    /\ ~IsNaN(a)
    /\ ~IsNaN(b)
    /\ b.num * a.den > a.num * b.den

\* score >= minMatchScore.
AtLeast(s, t) ==
    /\ ~IsNaN(s)
    /\ IF s.sq
       THEN t.n <= 0 \/ s.num * t.d * t.d >= t.n * t.n * s.den
       ELSE s.num * t.d >= t.n * s.den

\* results.sort((a, b) => b[0] - a[0]): a stable sort, by insertion.
RECURSIVE InsertSorted(_, _)
InsertSorted(sorted, x) ==
    IF sorted = <<>> THEN <<x>>
    ELSE IF Greater(x.score, Head(sorted).score) THEN <<x>> \o sorted
    ELSE <<Head(sorted)>> \o InsertSorted(Tail(sorted), x)

RECURSIVE SortDescFrom(_, _, _)
SortDescFrom(results, k, acc) ==
    IF k > Len(results) THEN acc
    ELSE SortDescFrom(results, k + 1, InsertSorted(acc, results[k]))

SortDesc(results) == SortDescFrom(results, 1, <<>>)

---------------------------------------------------------------------------
(* Query. *)

Null == [kind |-> "null", list |-> <<>>]

List(l) == [kind |-> "list", list |-> l]

RECURSIVE Ascending(_)
Ascending(S) ==
    IF S = {} THEN <<>>
    ELSE LET m == CHOOSE x \in S : \A y \in S : x <= y
         IN  <<m>> \o Ascending(S \ {m})

RECURSIVE SumSeq(_, _)
SumSeq(s, k) == IF k = 0 THEN 0 ELSE s[k] + SumSeq(s, k - 1)

\* The matches object of __get: entry index -> accumulated dot product.
Matches(ix, gramCounts) ==
    LET hit     == DOMAIN gramCounts \cap DOMAIN ix.matchDict
        indexes == UNION {{ix.matchDict[g][k][1] : k \in DOMAIN ix.matchDict[g]} : g \in hit}
        contrib(g, i) ==
            LET post == ix.matchDict[g]
                each == [k \in DOMAIN post |->
                           IF post[k][1] = i THEN gramCounts[g] * post[k][2] ELSE 0]
            IN  SumSeq(each, Len(each))
    IN  [i \in indexes |-> SumOver([g \in hit |-> contrib(g, i)], hit)]

\* A filter that compares the wrong way round (score <= minMatchScore).
FilterBelow(ix, results, minMatchScore) ==
    LET keep == SelectSeq(results, LAMBDA r : ~AtLeast(r.score, minMatchScore)
                                              \/ r.score.num * minMatchScore.d
                                                 = minMatchScore.n * r.score.den)
    IN  [k \in DOMAIN keep |-> [score |-> keep[k].score, str |-> ix.exactSet[keep[k].str]]]

\* The final filter and the mapping back to the original strings.
FilterResults(ix, results, minMatchScore) ==
    LET keep == SelectSeq(results, LAMBDA r : AtLeast(r.score, minMatchScore))
    IN  [k \in DOMAIN keep |-> [score |-> keep[k].score, str |-> ix.exactSet[keep[k].str]]]

\* A Levenshtein pass that leaves the candidates in their cosine order.
RefineUnsorted(results, normalizedValue) ==
    LET endIndex == IF TopCandidates < Len(results) THEN TopCandidates ELSE Len(results)
    IN  [k \in 1..endIndex |->
            [score |-> _distance(results[k].str, normalizedValue),
             str   |-> results[k].str]]

\* The Levenshtein pass over the top candidates, sorted again.
Refine(results, normalizedValue) ==
    LET endIndex == IF TopCandidates < Len(results) THEN TopCandidates ELSE Len(results)
    IN  SortDesc([k \in 1..endIndex |->
                    [score |-> _distance(results[k].str, normalizedValue),
                     str   |-> results[k].str]])

\* The cosine candidates of one gram size, in the order of the first sort.
Candidates(ix, value, gramSize) ==
    LET normalizedValue == _normalizeStr(value)
        gramCounts == _gramCounter(normalizedValue, gramSize)
        its        == ix.items[gramSize]
        sumSq      == SumOfSquares(gramCounts)
        matches    == Matches(ix, gramCounts)
        order      == Ascending(DOMAIN matches)
    IN  SortDesc([k \in DOMAIN order |->
                    [score |-> [sq  |-> TRUE,
                                num |-> matches[order[k]] * matches[order[k]],
                                den |-> sumSq * its[order[k] + 1].norm],
                     str   |-> its[order[k] + 1].str]])

__get(ix, value, gramSize, minMatchScore, useLev) ==
    LET sorted == Candidates(ix, value, gramSize)
    IN  IF sorted = <<>> THEN Null
        ELSE List(FilterResults(ix,
                      IF useLev THEN Refine(sorted, _normalizeStr(value)) ELSE sorted,
                      minMatchScore))

RECURSIVE GetFrom(_, _, _, _, _, _)
RECURSIVE GetFromFirstCandidates(_, _, _, _, _, _)
\* A fallback that stops at the first gram size with a candidate, whatever the
\* filter leaves of it (results !== null in place of results.length > 0).
GetFromFirstCandidates(ix, value, gramSize, lower, minMatchScore, useLev) ==
    IF gramSize < lower THEN Null
    ELSE LET results == __get(ix, value, gramSize, minMatchScore, useLev)
         IN  IF results.kind = "list" THEN results
             ELSE GetFromFirstCandidates(ix, value, gramSize - 1, lower,
                                         minMatchScore, useLev)

GetFrom(ix, value, gramSize, lower, minMatchScore, useLev) ==
    IF gramSize < lower THEN Null
    ELSE LET results == __get(ix, value, gramSize, minMatchScore, useLev)
         IN  IF results.kind = "list" /\ Len(results.list) > 0 THEN results
             ELSE GetFrom(ix, value, gramSize - 1, lower, minMatchScore, useLev)

_get(ix, value, minMatchScore, lower, upper, useLev) ==
    GetFrom(ix, value, upper, lower, minMatchScore, useLev)

Undefined == "undefined"

get(ix, value, defaultValue, minMatchScore, lower, upper, useLev) ==
    LET r == _get(ix, value, minMatchScore, lower, upper, useLev)
    IN  IF r.kind = "null" /\ defaultValue # Undefined
        THEN [kind |-> "default", list |-> <<>>]
        ELSE r

---------------------------------------------------------------------------
(* The inputs of the model. *)

LordOfTheRings ==
    <<"L","o","r","d"," ","o","f"," ","t","h","e"," ","R","i","n","g","s">>

RingsOfPower == <<"R","i","n","g","s"," ","o","f"," ","P","o","w","e","r">>

Ring == <<"r","i","n","g">>

\* The strings handed to add and to get: the empty string, case variants,
\* strings with disallowed characters outside, inside and throughout, strings
\* that share grams at one gram size only, and a property name of
\* Object.prototype.
Words ==
    { <<>>, <<"a">>, <<"A">>, <<"a","b">>, <<"a","-","a">>,
      <<"a","b","c">>, <<"a","c","b">>, <<"!">>, <<"!","a">>,
      <<"c","o","n","s","t","r","u","c","t","o","r">> }

\* The strings of the documented scenario.
ScenarioWords == {LordOfTheRings, RingsOfPower, Ring}

Thresholds ==
    { [n |-> 0, d |-> 1], DefaultMinMatchScore, [n |-> 1, d |-> 2], [n |-> 1, d |-> 1] }

ADefault == "fallback"

\* The (defaultValue, minMatchScore) pairs of the get calls.
GetArguments ==
    {<<Undefined, t>> : t \in Thresholds} \cup {<<ADefault, DefaultMinMatchScore>>}

Leq(t1, t2) == t1.n * t2.d <= t2.n * t1.d

\* The strings of the edit-distance checks.
LevAlphabet == {"a", "b", "c"}

RECURSIVE StringsOfLen(_)
StringsOfLen(n) ==
    IF n = 0 THEN {<<>>}
    ELSE {Append(s, c) : s \in StringsOfLen(n - 1), c \in LevAlphabet}

LevStrings == UNION {StringsOfLen(n) : n \in 0..MaxLevLen}

---------------------------------------------------------------------------
(* The index as a state machine. *)

NoCall == [name |-> "new", value |-> <<>>, defaultValue |-> Undefined,
           minMatchScore |-> DefaultMinMatchScore]

Void == [kind |-> "void", list |-> <<>>]

NoLev == [pc |-> "idle", str1 |-> <<>>, str2 |-> <<>>, out |-> 0,
          score |-> [sq |-> FALSE, num |-> 0, den |-> 0]]

\* new FuzzySearch([], useLevenshtein, gramSizeLower, gramSizeUpper); the
\* entries of a non-empty arr are the add calls that follow.
Init ==
    /\ gramSizeLower \in 1..MaxGramSize
    /\ gramSizeUpper \in gramSizeLower..MaxGramSize
    /\ useLevenshtein \in BOOLEAN
    /\ exactSet = <<>>
    /\ matchDict = <<>>
    /\ items = [g \in gramSizeLower..gramSizeUpper |-> <<>>]
    /\ call = NoCall
    /\ result = Void
    /\ lev = NoLev

\* A call that only reads is taken after a construction or an add: it leaves
\* the index as it is, so a read after a read starts from the same index and
\* reaches no other state.
Mutated == call.name \in {"new", "add"}

Add(value) ==
    /\ length(index) < MaxEntries \/ _normalizeStr(value) \in DOMAIN exactSet
    /\ LET ix == add(index, value, gramSizeLower, gramSizeUpper)
       IN  /\ exactSet' = ix.exactSet
           /\ matchDict' = ix.matchDict
           /\ items' = ix.items
    /\ call' = [NoCall EXCEPT !.name = "add", !.value = value]
    /\ result' = Void
    /\ UNCHANGED <<gramSizeLower, gramSizeUpper, useLevenshtein, lev>>

Get(value, defaultValue, minMatchScore) ==
    /\ Mutated
    /\ call' = [name |-> "get", value |-> value, defaultValue |-> defaultValue,
                minMatchScore |-> minMatchScore]
    /\ result' = get(index, value, defaultValue, minMatchScore,
                     gramSizeLower, gramSizeUpper, useLevenshtein)
    /\ UNCHANGED <<gramSizeLower, gramSizeUpper, useLevenshtein,
                   exactSet, matchDict, items, lev>>

Length ==
    /\ Mutated
    /\ call' = [NoCall EXCEPT !.name = "length"]
    /\ result' = [kind |-> "number", list |-> <<length(index)>>]
    /\ UNCHANGED <<gramSizeLower, gramSizeUpper, useLevenshtein,
                   exactSet, matchDict, items, lev>>

IsEmpty ==
    /\ Mutated
    /\ call' = [NoCall EXCEPT !.name = "isEmpty"]
    /\ result' = [kind |-> "boolean", list |-> <<isEmpty(index)>>]
    /\ UNCHANGED <<gramSizeLower, gramSizeUpper, useLevenshtein,
                   exactSet, matchDict, items, lev>>

Next ==
    \/ \E value \in Words : Add(value)
    \/ \E value \in Words, args \in GetArguments : Get(value, args[1], args[2])
    \/ Length
    \/ IsEmpty

Spec == Init /\ [][Next]_vars

---------------------------------------------------------------------------
(* Properties of the index. *)

GramSizes == gramSizeLower..gramSizeUpper

\* The positions of posting list x that refer to entry index i.
PostingsOf(x, i) ==
    IF x \in DOMAIN matchDict
    THEN {k \in DOMAIN matchDict[x] : matchDict[x][k][1] = i}
    ELSE {}

\* C7: for every configured gram size the record list has as many records as
\* the catalog has keys, and position i holds the same normalized string at
\* every gram size.
C7_RecordsMatchCatalog ==
    /\ DOMAIN items = GramSizes
    /\ \A g \in GramSizes : Len(items[g]) = length(index)
    /\ \A g \in GramSizes, h \in GramSizes :
          \A i \in 1..Len(items[g]) : items[g][i].str = items[h][i].str

C7_Witness ==
    /\ call.name = "add"
    /\ gramSizeLower < gramSizeUpper
    /\ length(index) >= 2
    /\ \A g \in GramSizes : Len(items[g]) >= 2

\* C8: the posting map is exact.  For every configured gram size g and every
\* record i of g, a gram x of length g has exactly one posting (i, f) when x
\* occurs f > 0 times among the grams of the record's string and none
\* otherwise; no posting refers to an index outside the record list; the stored
\* norm is the root of the sum of the squared frequencies posted for i.
C8_PostingsExact ==
    /\ \A x \in DOMAIN matchDict :
          /\ Len(x) \in GramSizes
          /\ \A k \in DOMAIN matchDict[x] :
                matchDict[x][k][1] \in 0..(Len(items[Len(x)]) - 1)
    /\ \A g \in GramSizes : \A i \in 1..Len(items[g]) :
          LET grams  == _iterateGrams(items[g][i].str, g)
              occ(x) == Cardinality({p \in DOMAIN grams : grams[p] = x})
              ofSize == {x \in DOMAIN matchDict : Len(x) = g}
              freq   == [x \in ofSize |->
                           IF PostingsOf(x, i - 1) = {} THEN 0
                           ELSE matchDict[x][CHOOSE k \in PostingsOf(x, i - 1) : TRUE][2]]
          IN  /\ Range(grams) \subseteq ofSize
              /\ \A x \in ofSize :
                    IF occ(x) > 0
                    THEN Cardinality(PostingsOf(x, i - 1)) = 1 /\ freq[x] = occ(x)
                    ELSE PostingsOf(x, i - 1) = {}
              /\ items[g][i].norm = SumOver([x \in ofSize |-> freq[x] * freq[x]], ofSize)

\* An entry with a repeated gram and a posting list shared by two entries.
C8_Witness ==
    /\ call.name = "add"
    /\ \E x \in DOMAIN matchDict : \E k \in DOMAIN matchDict[x] : matchDict[x][k][2] >= 2
    /\ \E x \in DOMAIN matchDict : Len(matchDict[x]) >= 2

\* The normal form the claim C9 states: lower-cased, with the leading run and
\* the trailing run of disallowed characters removed.
RECURSIVE DropLeading(_)
DropLeading(str) ==
    IF str # <<>> /\ ~WordChar(Head(str)) THEN DropLeading(Tail(str)) ELSE str

RECURSIVE DropTrailing(_)
DropTrailing(str) ==
    IF str # <<>> /\ ~WordChar(str[Len(str)])
    THEN DropTrailing(SubSeq(str, 1, Len(str) - 1))
    ELSE str

OuterStripped(raw) == DropTrailing(DropLeading(toLowerCase(raw)))

\* The string an add has just stored as an original.
Stored(value) == \E k \in DOMAIN exactSet : exactSet[k] = value

\* C9 as stated: the catalog key of an added string is its lower-cased form
\* without the outer runs of disallowed characters.
C9_AsStated ==
    (call.name = "add" /\ Stored(call.value)) =>
        /\ OuterStripped(call.value) \in DOMAIN exactSet
        /\ exactSet[OuterStripped(call.value)] = call.value

\* The windows of length g of a padded string.
Windows(source, g) ==
    LET padded == <<"-">> \o source \o <<"-">> \o Dashes(g - Len(source) - 2)
    IN  {SubSeq(padded, p, p + g - 1) : p \in 1..(Len(padded) - g + 1)}

\* The source of the grams: the lower-cased string, or the empty string when
\* every character of it is disallowed.
GramSource(raw) ==
    LET low == [i \in DOMAIN raw |-> toLowerCaseChar(raw[i])]
    IN  IF low # <<>> /\ {i \in DOMAIN low : WordChar(low[i])} = {} THEN <<>> ELSE low

\* C9, amended: the catalog key and the record string are the lower-cased raw
\* string, outer runs included; the grams posted for the entry are the windows
\* of the padded lower-cased string, or of the padded empty string when every
\* character is disallowed; every key is the lower-cased form of its original.
C9_KeyIsLowerCased ==
    /\ \A k \in DOMAIN exactSet :
          k = [i \in DOMAIN exactSet[k] |-> toLowerCaseChar(exactSet[k][i])]
    /\ (call.name = "add" /\ Stored(call.value)) =>
          LET low == [i \in DOMAIN call.value |-> toLowerCaseChar(call.value[i])]
          IN  /\ low \in DOMAIN exactSet
              /\ exactSet[low] = call.value
              /\ \A g \in GramSizes :
                    \E i \in 1..Len(items[g]) :
                       /\ items[g][i].str = low
                       /\ {x \in DOMAIN matchDict :
                              Len(x) = g /\ PostingsOf(x, i - 1) # {}}
                          = Windows(GramSource(call.value), g)

\* Two raw strings that differ in an outer run of disallowed characters are two
\* entries, and a string of disallowed characters only has been added.
C9_Witness ==
    /\ call.name = "add"
    /\ {<<"a">>, <<"!", "a">>} \subseteq DOMAIN exactSet
       \/ (call.value = <<"!">> /\ <<"!">> \in DOMAIN exactSet)

\* C3: an add whose normalized form is already a catalog key changes nothing:
\* the catalog, the record lists and the posting lists stay as they are, and so
\* do length() and the results of get (those for the string added again and for
\* one other query are compared; every other follows from the unchanged index).
C3_DuplicateAddIsNoOp ==
    [][(call'.name = "add" /\ _normalizeStr(call'.value) \in DOMAIN exactSet) =>
          LET after == [exactSet |-> exactSet', matchDict |-> matchDict', items |-> items']
          IN  /\ exactSet' = exactSet
              /\ matchDict' = matchDict
              /\ items' = items
              /\ length(after) = length(index)
              /\ \A q \in {call'.value, <<"a">>} :
                    _get(after, q, DefaultMinMatchScore, gramSizeLower, gramSizeUpper,
                         useLevenshtein)
                    = _get(index, q, DefaultMinMatchScore, gramSizeLower, gramSizeUpper,
                           useLevenshtein)]_vars

\* A second add of a key has been made with another raw string, and the first
\* original is the one stored.
C3_Witness ==
    /\ call.name = "add"
    /\ _normalizeStr(call.value) \in DOMAIN exactSet
    /\ exactSet[_normalizeStr(call.value)] # call.value

---------------------------------------------------------------------------
(* Properties of get. *)

IsOne(score) == ~IsNaN(score) /\ score.num = score.den

Count(r) == IF r.kind = "list" THEN Len(r.list) ELSE 0

MaxOf(S) == CHOOSE x \in S : \A y \in S : y <= x

\* The result of the last get's query at one gram size, at threshold t.
AtSize(g, t) == __get(index, call.value, g, t, useLevenshtein)

\* The result of the last get's query at threshold t.
AtThreshold(t) ==
    _get(index, call.value, t, gramSizeLower, gramSizeUpper, useLevenshtein)

\* C1 as stated: a higher threshold never returns more results than the
\* threshold of the call did.
C1_AsStated ==
    call.name = "get" =>
        \A t2 \in Thresholds :
           Leq(call.minMatchScore, t2) => Count(AtThreshold(t2)) <= Count(result)

\* C1, amended: at each single gram size the number of results does not grow
\* with the threshold, and a get without a result has none at any higher
\* threshold either.
C1_MonotoneAtEachGramSize ==
    call.name = "get" =>
        \A t2 \in Thresholds :
           Leq(call.minMatchScore, t2) =>
              /\ \A g \in GramSizes :
                    Count(AtSize(g, t2)) <= Count(AtSize(g, call.minMatchScore))
              /\ result.kind # "list" => AtThreshold(t2).kind = "null"

\* A higher threshold returns more results than the call: it empties the
\* result of a larger gram size and the query falls back to a smaller one.
C1_Witness ==
    /\ call.name = "get"
    /\ result.kind = "list"
    /\ \E t2 \in Thresholds :
          /\ Leq(call.minMatchScore, t2)
          /\ Count(AtThreshold(t2)) > Count(result)
          /\ \E g \in GramSizes :
                Count(AtSize(g, t2)) < Count(AtSize(g, call.minMatchScore))

\* C2 as stated: after add(s) for a non-empty s, get(s) at the default
\* threshold returns a list that holds s itself with score 1.
C2_SelfMatch ==
    (call.name = "add" /\ call.value # <<>>) =>
        LET r == get(index, call.value, Undefined, DefaultMinMatchScore,
                     gramSizeLower, gramSizeUpper, useLevenshtein)
        IN  /\ r.kind = "list"
            /\ \E k \in DOMAIN r.list :
                  r.list[k].str = call.value /\ IsOne(r.list[k].score)

\* C2 read for the first string added with a normalized form: get(s) holds the
\* string the catalog stores for s, s itself unless a case variant came first.
C2_SelfMatchOfStored ==
    (call.name = "add" /\ call.value # <<>>) =>
        LET r == get(index, call.value, Undefined, DefaultMinMatchScore,
                     gramSizeLower, gramSizeUpper, useLevenshtein)
        IN  /\ r.kind = "list"
            /\ \E k \in DOMAIN r.list :
                  /\ toLowerCase(r.list[k].str) = toLowerCase(call.value)
                  /\ IsOne(r.list[k].score)

\* The gram sizes at which the last get's query has a candidate, and those at
\* which a candidate passes the threshold.
WithCandidates == {g \in GramSizes : AtSize(g, call.minMatchScore).kind = "list"}

WithResults == {g \in WithCandidates : AtSize(g, call.minMatchScore).list # <<>>}

NoMatch ==
    result = [kind |-> IF call.defaultValue = Undefined THEN "null" ELSE "default",
              list |-> <<>>]

\* C4 as stated: the result is that of the largest gram size with a candidate,
\* an empty list included, and "no match" only when no gram size has one.
C4_AsStated ==
    call.name = "get" =>
        IF WithCandidates = {} THEN NoMatch
        ELSE result = AtSize(MaxOf(WithCandidates), call.minMatchScore)

\* C4, amended: the result is that of the largest gram size at which a
\* candidate passes the threshold; get never returns an empty list, and it
\* reports "no match" when no gram size has a candidate that passes.
C4_FallbackToFirstResult ==
    call.name = "get" =>
        /\ result.kind = "list" => result.list # <<>>
        /\ IF WithResults = {} THEN NoMatch
           ELSE result = AtSize(MaxOf(WithResults), call.minMatchScore)

\* A get whose largest gram size with candidates lost them all to the filter:
\* once answered from a smaller gram size, once answered "no match".
C4_Witness ==
    /\ call.name = "get"
    /\ WithCandidates # {}
    /\ MaxOf(WithCandidates) \notin WithResults
    /\ result.kind = "list"

C4_WitnessNoMatch ==
    /\ call.name = "get"
    /\ WithCandidates # {}
    /\ WithResults = {}
    /\ result.kind = "null"

\* C6: a list returned by get is in non-increasing score order, holds no score
\* below minMatchScore, and each string is the original the catalog stores for
\* its normalized form.
C6_SortedAndFiltered ==
    (call.name = "get" /\ result.kind = "list") =>
        /\ \A k \in DOMAIN result.list :
              /\ ~IsNaN(result.list[k].score)
              /\ AtLeast(result.list[k].score, call.minMatchScore)
              /\ toLowerCase(result.list[k].str) \in DOMAIN exactSet
              /\ exactSet[toLowerCase(result.list[k].str)] = result.list[k].str
        /\ \A k \in 1..(Len(result.list) - 1) :
              result.list[k].score.num * result.list[k + 1].score.den
              >= result.list[k + 1].score.num * result.list[k].score.den

\* Two results with different scores, one of them an original that is not its
\* own normalized form, after the Levenshtein pass.
C6_Witness ==
    /\ call.name = "get"
    /\ useLevenshtein
    /\ result.kind = "list"
    /\ Len(result.list) >= 2
    /\ Greater(result.list[1].score, result.list[2].score)
    /\ \E k \in DOMAIN result.list :
          toLowerCase(result.list[k].str) # result.list[k].str

---------------------------------------------------------------------------
(* The documented scenario: the index of two titles, default settings. *)

InitScenario ==
    /\ Init
    /\ gramSizeLower = DefaultGramSizeLower
    /\ gramSizeUpper = DefaultGramSizeUpper
    /\ useLevenshtein

NextScenario ==
    \/ \E value \in ScenarioWords : Add(value)
    \/ \E value \in ScenarioWords, args \in GetArguments : Get(value, args[1], args[2])
    \/ Length
    \/ IsEmpty

SpecScenario == InitScenario /\ [][NextScenario]_vars

\* new FuzzySearch(["Lord of the Rings", "Rings of Power"]) has run.
ScenarioBuilt ==
    /\ exactSet = [k \in {toLowerCase(LordOfTheRings), toLowerCase(RingsOfPower)} |->
                     IF k = toLowerCase(LordOfTheRings) THEN LordOfTheRings
                     ELSE RingsOfPower]
    /\ \A g \in GramSizes :
          /\ Len(items[g]) = 2
          /\ items[g][1].str = toLowerCase(LordOfTheRings)

GetRing(t) ==
    /\ ScenarioBuilt
    /\ call.name = "get"
    /\ call.value = Ring
    /\ call.minMatchScore = t

Has(str) ==
    \E k \in DOMAIN result.list :
       /\ result.list[k].str = str
       /\ AtLeast(result.list[k].score, DefaultMinMatchScore)

\* C5 as stated: get("ring") at the default threshold returns both titles, each
\* with a score >= 0.33.
C5_AsStated ==
    GetRing(DefaultMinMatchScore) =>
        result.kind = "list" /\ Has(LordOfTheRings) /\ Has(RingsOfPower)

\* C5, amended: get("ring") at the default threshold reports "no match": both
\* titles are candidates, with the Levenshtein scores 4/14 and 4/17, which are
\* below 0.33; at threshold 0 both are returned, "Rings of Power" first.
C5_RingHasNoMatch ==
    /\ GetRing(DefaultMinMatchScore) => NoMatch /\ WithCandidates = GramSizes
    /\ GetRing([n |-> 0, d |-> 1]) =>
          result = List(<<[score |-> [sq |-> FALSE, num |-> 4, den |-> 14],
                           str |-> RingsOfPower],
                          [score |-> [sq |-> FALSE, num |-> 4, den |-> 17],
                           str |-> LordOfTheRings]>>)

C5_Witness ==
    /\ GetRing(DefaultMinMatchScore)
    /\ call.defaultValue = Undefined
    /\ result = Null

---------------------------------------------------------------------------
(* The edit distance as a function of two strings. *)

Longer(str1, str2) == IF Len(str1) > Len(str2) THEN Len(str1) ELSE Len(str2)

\* The strings one insertion, deletion or substitution away.
EditNeighbours(str) ==
    {SubSeq(str, 1, p - 1) \o SubSeq(str, p + 1, Len(str)) : p \in 1..Len(str)}
    \cup {[str EXCEPT ![p] = c] : p \in 1..Len(str), c \in LevAlphabet}
    \cup {SubSeq(str, 1, p) \o <<c>> \o SubSeq(str, p + 1, Len(str)) :
             p \in 0..Len(str), c \in LevAlphabet}

\* The least number of single-character edits that lead from a string of
\* `reached` to `target`, `k` edits having led to `reached`.
RECURSIVE EditsFrom(_, _, _)
EditsFrom(reached, target, k) ==
    IF target \in reached THEN k
    ELSE EditsFrom(reached \cup UNION {EditNeighbours(s) : s \in reached}, target, k + 1)

EditDistance(str1, str2) == EditsFrom({str1}, str2, 0)

InitLev ==
    /\ gramSizeLower = DefaultGramSizeLower
    /\ gramSizeUpper = DefaultGramSizeUpper
    /\ useLevenshtein = TRUE
    /\ exactSet = <<>>
    /\ matchDict = <<>>
    /\ items = [g \in gramSizeLower..gramSizeUpper |-> <<>>]
    /\ call = NoCall
    /\ result = Void
    /\ \E str1 \in LevStrings, str2 \in LevStrings :
          lev = [NoLev EXCEPT !.pc = "start", !.str1 = str1, !.str2 = str2]

LevenshteinCall ==
    /\ lev.pc = "start"
    /\ lev' = [lev EXCEPT !.pc = "levenshtein", !.out = levenshtein(lev.str1, lev.str2)]
    /\ UNCHANGED <<gramSizeLower, gramSizeUpper, useLevenshtein,
                   exactSet, matchDict, items, call, result>>

DistanceCall ==
    /\ lev.pc = "start"
    /\ lev' = [lev EXCEPT !.pc = "_distance", !.score = _distance(lev.str1, lev.str2)]
    /\ UNCHANGED <<gramSizeLower, gramSizeUpper, useLevenshtein,
                   exactSet, matchDict, items, call, result>>

NextLev == LevenshteinCall \/ DistanceCall

SpecLev == InitLev /\ [][NextLev]_vars

\* C10: levenshtein(a, b) is the least number of single-character insertions,
\* deletions and substitutions that turn a into b; it is at most the longer
\* length, and _distance, 1 - distance / longer length, is the same for (a, b)
\* and (b, a).
C10_LevenshteinIsEditDistance ==
    /\ lev.pc = "levenshtein" =>
          /\ lev.out = EditDistance(lev.str1, lev.str2)
          /\ lev.out <= Longer(lev.str1, lev.str2)
    /\ lev.pc = "_distance" =>
          /\ lev.score = _distance(lev.str2, lev.str1)
          /\ lev.score.den = Longer(lev.str1, lev.str2)
          /\ lev.score.num = lev.score.den - EditDistance(lev.str1, lev.str2)

\* Two different strings of different lengths with a substitution between them.
C10_Witness ==
    /\ lev.pc = "_distance"
    /\ Len(lev.str1) < Len(lev.str2)
    /\ lev.score.num > 0
    /\ lev.score.den - lev.score.num > Len(lev.str2) - Len(lev.str1)

===========================================================================
